---- MODULE Spec2Model ----
(***************************************************************************)
(* simpledoc.py: the two passes of process() over a corpus of parsed       *)
(* modules and packages.  Index builds refs (name -> enclosing scope ->    *)
(* path); Writer renders each module to HTML, resolving words of the       *)
(* docstrings and base-class names through refs and its context stack.     *)
(*                                                                         *)
(* Objects (Package, Module and ast nodes) are numbered; 0 is None.  A     *)
(* Python string is a sequence of atoms (a name or a separator), so that   *)
(* join and concatenation are sequence operations.  The recursion of the   *)
(* handlers is kept as an agenda of calls still to be made.                *)
(***************************************************************************)
EXTENDS Integers, Sequences, FiniteSets, TLC

VARIABLES
    cfg,        \* the corpus given on the command line (never changes)
    pc,         \* position in process(): "index", "render", "done"
    i,          \* position of process()'s current for loop in trees
    agenda,     \* calls still to be made by the pass in progress
    err,        \* "none", or the exception that ended the run
    refs,       \* Index.refs
    context,    \* Index.context
    iname,      \* Index.name
    stamp,      \* the name attribute Index.handleModule sets on ast.Module nodes
    elements,   \* Writer.elements
    wcontext,   \* Writer.context
    wname,      \* Writer.name
    wfile,      \* Writer.f: the module whose document is open, or None
    out         \* everything written to the output files, in order

vars == <<cfg, pc, i, agenda, err, refs, context, iname, stamp,
          elements, wcontext, wname, wfile, out>>

indexVars == <<refs, context, iname, stamp>>
writerVars == <<elements, wcontext, wname, wfile, out>>

----------------------------------------------------------------------------
(* Bounds of the corpus.                                                   *)

NumNames == 3

NameList == <<"Helper", "g", "f", "A", "B", "Bar">>

Names == {NameList[k] : k \in 1..NumNames}

Words == Names \cup {"text"}

Renamable == {10, 11, 16}

Variants == {"full", "undocA", "undocB", "undocF", "undocG", "dotted"}

\* The paths are also given in the opposite order when nothing else varies.
Configs == {c \in [nm : [Renamable -> Names], word : Words,
                   variant : Variants, rev : BOOLEAN] :
                c.rev => c.variant = "full"}

----------------------------------------------------------------------------
(* The corpus: what find_modules returns for the given paths.              *)

None == 0

Nodes == 1..16

Kind(n) ==
    CASE n = 1 -> "Package"
      [] n \in {2, 8, 12, 14} -> "Module"
      [] n \in {3, 5, 6, 7, 13, 16} -> "ClassDef"
      [] n \in {4, 9, 10, 11} -> "FunctionDef"
      [] n = 15 -> "Import"

Name(n) ==
    CASE n = 1 -> "pkg"
      [] n = 2 -> "a"
      [] n = 3 -> "A"
      [] n = 4 -> "meth"
      [] n = 5 -> "Helper"
      [] n = 6 -> "B"
      [] n = 7 -> "Helper"
      [] n = 8 -> "b"
      [] n = 9 -> "f"
      [] n \in Renamable -> cfg.nm[n]
      [] n = 12 -> "c"
      [] n = 13 -> "Bar"
      [] n = 14 -> "c"
      [] n = 15 -> ""

\* Package.objects, Module.objects[0].body, ClassDef.body, FunctionDef.body
\* (without the docstring's own Expr statement, which no handler visits).
Body(n) ==
    CASE n = 1 -> <<2, 8>>
      [] n = 2 -> <<3, 6>>
      [] n = 3 -> <<4, 5>>
      [] n = 6 -> <<7>>
      [] n = 8 -> <<9, 11>>
      [] n = 9 -> <<10, 16, 15>>
      [] n = 12 -> <<13>>
      [] OTHER -> <<>>

\* The paths given to process(), in the order given.
Trees == IF cfg.rev THEN <<14, 12, 1>> ELSE <<1, 12, 14>>

Undocumented ==
    CASE cfg.variant = "undocA" -> {3}
      [] cfg.variant = "undocB" -> {8}
      [] cfg.variant = "undocF" -> {9}
      [] cfg.variant = "undocG" -> {10}
      [] OTHER -> {}

\* ast.get_docstring(obj) as paragraphs of whitespace-separated pieces; a
\* piece is a sequence of atoms.  <<>> is the absent or empty docstring.
\* Two blank lines in a row give an empty paragraph.
Docstring(n) ==
    IF n \in Undocumented \/ Kind(n) \notin {"Module", "ClassDef", "FunctionDef"}
    THEN <<>>
    ELSE << << <<cfg.word, ".">>, <<"x", ",">> >>,
            <<>>,
            << <<"(", cfg.word, ")">> >> >>

\* FunctionDef.args.args, as the ids of the Name nodes.
Args(n) ==
    CASE n = 4 -> <<"self", "x">>
      [] n = 9 -> <<"g">>
      [] OTHER -> <<>>

\* FunctionDef.args.defaults: Num literals.
Defaults(n) ==
    CASE n = 4 -> <<1>>
      [] OTHER -> <<>>

\* ClassDef.bases: [id |-> name] is a Name node, [attr |-> name] an
\* Attribute node (x.name), which has no id.
Bases(n) ==
    CASE n = 6 -> <<[id |-> cfg.word], [id |-> "A"], [id |-> "Nope"]>>
      [] n = 13 -> IF cfg.variant = "dotted"
                   THEN <<[id |-> "B"], [attr |-> "B"]>>
                   ELSE <<[id |-> "B"]>>
      [] OTHER -> <<>>

\* Import.names
ImportNames(n) == IF n = 15 THEN <<"os", "sys">> ELSE <<>>

----------------------------------------------------------------------------
(* Helpers on sequences and strings.                                       *)

Last(s) == s[Len(s)]

Front(s) == SubSeq(s, 1, Len(s) - 1)

RECURSIVE Join(_, _)
\* sep.join(names), each name one atom
Join(names, sep) ==
    IF Len(names) = 0 THEN <<>>
    ELSE IF Len(names) = 1 THEN <<names[1]>>
    ELSE <<names[1], sep>> \o Join(Tail(names), sep)

Range(s) == {s[k] : k \in 1..Len(s)}

----------------------------------------------------------------------------
(* Index                                                                   *)

\* Writer.CheckDocstring
CheckDocstring == {"Module", "ClassDef", "FunctionDef"}

\* is_documented without the check of the docstring
is_documented_always(n) == TRUE

\* Index.is_documented / Writer.is_documented
is_documented(n) ==
    IF Kind(n) \in CheckDocstring THEN Docstring(n) # <<>> ELSE TRUE

\* obj.name: ast.Module nodes have the name Index.handleModule gave them.
ObjName(n, st) == IF Kind(n) = "Module" THEN st[n] ELSE Name(n)

\* Index.add_ref: refs after recording obj under the top of the context
add_ref(n, st) ==
    LET name == ObjName(n, st)
        parent == IF context # <<>> THEN Last(context) ELSE None
        old == IF name \in DOMAIN refs THEN refs[name] ELSE [x \in {} |-> <<>>]
    IN  (name :> ((parent :> (context \o <<n>>)) @@ old)) @@ refs

Item4(op, n, s, el) == [op |-> op, n |-> n, s |-> s, el |-> el]

Item(op, n) == Item4(op, n, "", "")

Head1 == agenda[1]

Running(phase, op) ==
    /\ pc = phase
    /\ err = "none"
    /\ agenda # <<>>
    /\ Head1.op = op

\* Index.read -> Index.read_module
Index_read_module ==
    /\ Running("index", "read")
    /\ Kind(Head1.n) = "Module"
    /\ iname' = Name(Head1.n)
    /\ agenda' = <<Item("iobj", Head1.n)>> \o Tail(agenda)
    /\ UNCHANGED <<cfg, pc, i, err, refs, context, stamp>>
    /\ UNCHANGED writerVars

\* Index.read -> Index.read_package; the pop follows the children
Index_read_package ==
    /\ Running("index", "read")
    /\ Kind(Head1.n) = "Package"
    /\ context' = Append(context, Head1.n)
    /\ agenda' = [k \in 1..Len(Body(Head1.n)) |-> Item("read", Body(Head1.n)[k])]
                    \o <<Item("ipop", 0)>> \o Tail(agenda)
    /\ UNCHANGED <<cfg, pc, i, err, refs, iname, stamp>>
    /\ UNCHANGED writerVars

\* Index.Handlers
IndexHandlers == {"Module", "ClassDef", "FunctionDef"}

\* Index.process: an object that is undocumented or has no handler
Index_process_skip ==
    /\ Running("index", "iobj")
    /\ ~is_documented(Head1.n) \/ Kind(Head1.n) \notin IndexHandlers
    /\ agenda' = Tail(agenda)
    /\ UNCHANGED <<cfg, pc, i, err>>
    /\ UNCHANGED indexVars
    /\ UNCHANGED writerVars

\* Index.process_body: push, the body's objects, then the pop
IndexBody(n) ==
    [k \in 1..Len(Body(n)) |-> Item("iobj", Body(n)[k])] \o <<Item("ipop", 0)>>

\* Index.process -> Index.handleModule
Index_handleModule ==
    /\ Running("index", "iobj")
    /\ is_documented(Head1.n)
    /\ Kind(Head1.n) = "Module"
    /\ stamp' = [stamp EXCEPT ![Head1.n] = iname]
    /\ refs' = add_ref(Head1.n, stamp')
    /\ context' = Append(context, Head1.n)
    /\ agenda' = IndexBody(Head1.n) \o Tail(agenda)
    /\ UNCHANGED <<cfg, pc, i, err, iname>>
    /\ UNCHANGED writerVars

\* Index.process -> Index.handleClassDef
Index_handleClassDef ==
    /\ Running("index", "iobj")
    /\ is_documented(Head1.n)
    /\ Kind(Head1.n) = "ClassDef"
    /\ refs' = add_ref(Head1.n, stamp)
    /\ context' = Append(context, Head1.n)
    /\ agenda' = IndexBody(Head1.n) \o Tail(agenda)
    /\ UNCHANGED <<cfg, pc, i, err, iname, stamp>>
    /\ UNCHANGED writerVars

\* Index.process -> Index.handleFunctionDef
Index_handleFunctionDef ==
    /\ Running("index", "iobj")
    /\ is_documented(Head1.n)
    /\ Kind(Head1.n) = "FunctionDef"
    /\ refs' = add_ref(Head1.n, stamp)
    /\ context' = Append(context, Head1.n)
    /\ agenda' = IndexBody(Head1.n) \o Tail(agenda)
    /\ UNCHANGED <<cfg, pc, i, err, iname, stamp>>
    /\ UNCHANGED writerVars

\* self.context.pop() at the end of read_package and process_body
Index_context_pop ==
    /\ Running("index", "ipop")
    /\ context' = Front(context)
    /\ agenda' = Tail(agenda)
    /\ UNCHANGED <<cfg, pc, i, err, refs, iname, stamp>>
    /\ UNCHANGED writerVars

----------------------------------------------------------------------------
(* Writer: the operations on the output file and the element stack.  They  *)
(* act on a record ws of Writer.elements, the output and the exception     *)
(* raised so far; after an exception nothing more happens.                 *)

\* Writer.h, atom by atom (the encoding to bytes is left out)
h(text) ==
    [k \in 1..Len(text) |->
        CASE text[k] = "&" -> "&amp;"
          [] text[k] = "<" -> "&lt;"
          [] text[k] = ">" -> "&gt;"
          [] OTHER -> text[k]]

\* One write to self.f: t is "open", "template", "begin", "end", "w" or
\* "close"; val is the id or href attribute of a begin, the text of a w.
\* doc, by, word: the module whose document self.f is, the object whose
\* handler wrote it and the docstring word it carries.
Ev(ws, t, el, val, by, word) ==
    [t |-> t, el |-> el, val |-> val, doc |-> ws.f, by |-> by, word |-> word]

Raise(ws, e) == IF ws.err = "none" THEN [ws EXCEPT !.err = e] ELSE ws

\* the element with its attributes taken for the name to close
split_last(element) == element[Len(element)]

\* element.split()[0]
split_first(element) == element[1]

\* Writer.begin
begin(ws, element, id, href, by) ==
    IF ws.err # "none" THEN ws
    ELSE [ws EXCEPT
            !.out = Append(@, Ev(ws, "begin", split_first(element),
                                 h(IF id # <<>> THEN id ELSE href), by, <<>>)),
            !.elements = Append(@, split_first(element))]

\* Writer.end; element "" is end()'s default None
end(ws, element, by) ==
    IF ws.err # "none" THEN ws
    ELSE IF ws.elements = <<>> THEN Raise(ws, "IndexError: pop from empty list")
    ELSE LET previous == Last(ws.elements)
             popped == [ws EXCEPT !.elements = Front(@)]
         IN  IF element # "" /\ element # previous
             THEN Raise(popped, "SystemExit")
             ELSE [popped EXCEPT
                     !.out = Append(@, Ev(ws, "end", previous, <<>>, by, <<>>))]

\* Writer.w; word is <<>> unless text is a docstring piece
w(ws, text, by, word) ==
    IF ws.err # "none" THEN ws
    ELSE [ws EXCEPT !.out = Append(@, Ev(ws, "w", "", h(text), by, word))]

----------------------------------------------------------------------------
(* Writer: references                                                      *)

\* Writer.encode_ref
encode_ref(pieces) ==
    LET path == SelectSeq(pieces, LAMBDA p : Kind(p) \in {"Package", "Module"})
        ref == SelectSeq(pieces, LAMBDA p : Kind(p) \notin {"Package", "Module"})
    IN  <<Join([k \in 1..Len(path) |-> ObjName(path[k], stamp)], "."),
          Join([k \in 1..Len(ref) |-> ObjName(ref[k], stamp)], "-")>>

\* Writer.create_ref: [err, id]
create_ref(n) ==
    LET name == ObjName(n, stamp)
    IN  IF wcontext = <<>>
        THEN [err |-> "IndexError: list index out of range", id |-> <<>>]
        ELSE IF name \notin DOMAIN refs \/ Last(wcontext) \notin DOMAIN refs[name]
        THEN [err |-> "KeyError", id |-> <<>>]
        ELSE [err |-> "none", id |-> encode_ref(refs[name][Last(wcontext)])[2]]

RECURSIVE closest(_, _)
\* Writer.get_ref's loop over self.context[::-1]: the path, or <<>>
closest(candidates, ctx) ==
    IF ctx = <<>> THEN <<>>
    ELSE IF Last(ctx) \in DOMAIN candidates THEN candidates[Last(ctx)]
    ELSE closest(candidates, Front(ctx))

\* get_ref walking the context even for a single candidate
lookup_by_context(candidates) == closest(candidates, wcontext)

\* Writer.get_ref's choice of the path among the candidates, or <<>>
lookup(candidates) ==
    IF Cardinality(DOMAIN candidates) = 1
    THEN candidates[CHOOSE p \in DOMAIN candidates : TRUE]
    ELSE closest(candidates, wcontext)

\* Writer.get_ref
get_ref(name) ==
    IF name \notin DOMAIN refs THEN <<>>
    ELSE LET ref == lookup(refs[name])
         IN  IF ref = <<>> THEN <<>>
             ELSE LET e == encode_ref(ref)
                  IN  IF e[1] # <<>>
                      THEN IF e[2] # <<>> THEN e[1] \o <<".html#">> \o e[2]
                           ELSE e[1] \o <<".html">>
                      ELSE <<"#">> \o e[2]

----------------------------------------------------------------------------
(* Writer.write_docstring                                                  *)

Punctuation == {",", ".", ";", ":", "(", ")"}

RECURSIVE rstrip(_)
\* piece.rstrip(",.;:()")
rstrip(piece) ==
    IF piece # <<>> /\ Last(piece) \in Punctuation THEN rstrip(Front(piece))
    ELSE piece

\* word in names / word in self.index.refs: the word as one name, or ""
AsName(word) == IF Len(word) = 1 THEN word[1] ELSE ""

\* the elif of write_docstring without its test of obj.name
is_indexed(word, n) == AsName(word) \in DOMAIN refs

\* the elif of write_docstring: the word is looked up in the index
is_reference(word, n) ==
    /\ AsName(word) \in DOMAIN refs
    /\ AsName(word) # ObjName(n, stamp)

\* the body of the loop over words for words[k]
write_word(ws, n, names, words, k) ==
    LET piece == words[k]
        word == rstrip(piece)
        ref == get_ref(AsName(word))
        a == IF Len(word) = 1 /\ word[1] \in names
             THEN w(end(w(begin(w(ws, <<>>, n, <<>>), <<"em">>, <<>>, <<>>, n),
                          word, n, word), "em", n),
                    SubSeq(piece, Len(word) + 1, Len(piece)), n, <<>>)
             ELSE IF is_reference(word, n)
             THEN IF ref # <<>>
                  THEN end(w(begin(ws, <<"a">>, <<>>, ref, n), piece, n, word),
                           "a", n)
                  ELSE w(ws, piece, n, word)
             ELSE w(ws, piece, n, word)
    IN  IF k < Len(words) THEN w(a, <<" ">>, n, <<>>) ELSE a

RECURSIVE write_words(_, _, _, _, _)
write_words(ws, n, names, words, k) ==
    IF k > Len(words) THEN ws
    ELSE write_words(write_word(ws, n, names, words, k), n, names, words, k + 1)

RECURSIVE write_paragraphs(_, _, _, _, _)
write_paragraphs(ws, n, names, paragraphs, k) ==
    IF k > Len(paragraphs) THEN ws
    ELSE write_paragraphs(
            end(write_words(begin(ws, <<"p", "class=doc">>, <<>>, <<>>, n),
                            n, names, paragraphs[k], 1), "p", n),
            n, names, paragraphs, k + 1)

\* Writer.write_docstring
write_docstring(ws, n, names) == write_paragraphs(ws, n, names, Docstring(n), 1)

----------------------------------------------------------------------------
(* Writer: the handlers                                                    *)

WS == [elements |-> elements, out |-> out, err |-> "none", f |-> wfile]

\* self.context[-1], or None: the parent write_module looks the module up by
write_parent == IF wcontext # <<>> THEN Last(wcontext) ELSE None

\* write_module's test without the comparison with module.objects[0]
module_is_indexed(n) ==
    /\ Name(n) \in DOMAIN refs
    /\ write_parent \in DOMAIN refs[Name(n)]

\* Writer.write_module's test: the index holds this very module under
\* (module.name, parent)
module_matches(n) ==
    /\ Name(n) \in DOMAIN refs
    /\ write_parent \in DOMAIN refs[Name(n)]
    /\ Last(refs[Name(n)][write_parent]) = n

\* the name write_module gives the document
module_file(n) ==
    LET names == [k \in 1..Len(wcontext) |-> ObjName(wcontext[k], stamp)]
                    \o <<Name(n)>>
    IN  Join(SelectSeq(names, LAMBDA y : y # ""), ".")

\* Writer.write -> Writer.write_module, the module is written: open(name),
\* then write_objects(module.objects), then close()
Writer_write_module ==
    /\ Running("render", "write")
    /\ Kind(Head1.n) = "Module"
    /\ module_matches(Head1.n)
    /\ wname' = module_file(Head1.n)
    /\ wfile' = Head1.n
    /\ LET ws == [WS EXCEPT !.f = Head1.n]
           opened == [ws EXCEPT !.out = Append(@,
                        Ev(ws, "open", "", wname', Head1.n, <<>>))]
           html == begin(opened, <<"html">>, <<>>, <<>>, Head1.n)
           tmpl == [html EXCEPT !.out = Append(@,
                        Ev(ws, "template", "", h(wname'), Head1.n, <<>>))]
           body == begin(tmpl, <<"body">>, <<>>, <<>>, Head1.n)
       IN  /\ elements' = body.elements
           /\ out' = body.out
    /\ agenda' = <<Item("wobj", Head1.n), Item("close", Head1.n)>> \o Tail(agenda)
    /\ UNCHANGED <<cfg, pc, i, err, wcontext>>
    /\ UNCHANGED indexVars

\* Writer.write -> Writer.write_module, the early returns
Writer_write_module_return ==
    /\ Running("render", "write")
    /\ Kind(Head1.n) = "Module"
    /\ ~module_matches(Head1.n)
    /\ agenda' = Tail(agenda)
    /\ UNCHANGED <<cfg, pc, i, err>>
    /\ UNCHANGED indexVars
    /\ UNCHANGED writerVars

\* Writer.write -> Writer.write_package; the pop follows the children
Writer_write_package ==
    /\ Running("render", "write")
    /\ Kind(Head1.n) = "Package"
    /\ wcontext' = Append(wcontext, Head1.n)
    /\ agenda' = [k \in 1..Len(Body(Head1.n)) |-> Item("write", Body(Head1.n)[k])]
                    \o <<Item("wpop", 0)>> \o Tail(agenda)
    /\ UNCHANGED <<cfg, pc, i, err, elements, wname, wfile, out>>
    /\ UNCHANGED indexVars

\* self.context.pop() at the end of write_package and write_body
Writer_context_pop ==
    /\ Running("render", "wpop")
    /\ wcontext' = Front(wcontext)
    /\ agenda' = Tail(agenda)
    /\ UNCHANGED <<cfg, pc, i, err, elements, wname, wfile, out>>
    /\ UNCHANGED indexVars

\* Writer.close
Writer_close ==
    /\ Running("render", "close")
    /\ LET done == end(end(WS, "body", Head1.n), "html", Head1.n)
       IN  /\ elements' = done.elements
           /\ out' = IF done.err = "none"
                     THEN Append(done.out, Ev(WS, "close", "", <<>>, Head1.n, <<>>))
                     ELSE done.out
           /\ err' = done.err
           /\ wfile' = IF done.err = "none" THEN None ELSE wfile
    /\ agenda' = Tail(agenda)
    /\ UNCHANGED <<cfg, pc, i, wcontext, wname>>
    /\ UNCHANGED indexVars

\* Writer.write_objects: an undocumented object
Writer_write_objects_skip ==
    /\ Running("render", "wobj")
    /\ ~is_documented(Head1.n)
    /\ agenda' = Tail(agenda)
    /\ UNCHANGED <<cfg, pc, i, err>>
    /\ UNCHANGED indexVars
    /\ UNCHANGED writerVars

\* Writer.Order
Order(kind) ==
    CASE kind = "Module" -> <<[type |-> "ClassDef", category |-> "Classes"],
                              [type |-> "FunctionDef", category |-> "Functions"]>>
      [] kind = "ClassDef" -> <<[type |-> "FunctionDef", category |-> "Methods"]>>

\* The objects write_body collects under one type: the documented children
grouped(n, type) ==
    SelectSeq(Body(n), LAMBDA c : is_documented(c) /\ Kind(c) = type)

RECURSIVE sections(_, _, _)
\* write_body's loop over Writer.Order from entry k on: for each type that
\* has objects, the heading and then write_objects of them
sections(n, heading, k) ==
    IF k > Len(Order(Kind(n))) THEN <<>>
    ELSE LET o == Order(Kind(n))[k]
             objs == grouped(n, o.type)
         IN  (IF objs = <<>> THEN <<>>
              ELSE <<Item4("heading", n, o.category, heading)>>
                    \o [c \in 1..Len(objs) |-> Item("wobj", objs[c])])
             \o sections(n, heading, k + 1)

\* Writer.write_body after its context.append: the sections, then the pop
\* (show_others is False: the other objects are dropped)
write_body(n, heading) == sections(n, heading, 1) \o <<Item("wpop", 0)>>

\* write_body's begin(heading); w(category); end(end_heading)
Writer_write_body_heading ==
    /\ Running("render", "heading")
    /\ LET ws == end(w(begin(WS, <<Head1.el>>, <<>>, <<>>, Head1.n),
                       <<Head1.s>>, Head1.n, <<>>), Head1.el, Head1.n)
       IN  /\ elements' = ws.elements
           /\ out' = ws.out
           /\ err' = ws.err
    /\ agenda' = Tail(agenda)
    /\ UNCHANGED <<cfg, pc, i, wcontext, wname, wfile>>
    /\ UNCHANGED indexVars

\* Writer.handleModule
Writer_handleModule ==
    /\ Running("render", "wobj")
    /\ is_documented(Head1.n)
    /\ Kind(Head1.n) = "Module"
    /\ LET n == Head1.n
           h1 == end(w(begin(WS, <<"h1">>, <<>>, <<>>, n), wname, n, <<>>),
                     "h1", n)
           ws == write_docstring(h1, n, {})
       IN  /\ elements' = ws.elements
           /\ out' = ws.out
           /\ err' = ws.err
           /\ wcontext' = IF ws.err = "none" THEN Append(wcontext, n) ELSE wcontext
           /\ agenda' = IF ws.err = "none"
                        THEN write_body(n, "h2") \o Tail(agenda)
                        ELSE agenda
    /\ UNCHANGED <<cfg, pc, i, wname, wfile>>
    /\ UNCHANGED indexVars

RECURSIVE resolved_bases(_, _)
\* handleClassDef's first loop over obj.bases from base k on: the (name,
\* ref) pairs of the bases get_ref resolves; err when a base has no id
resolved_bases(bases, k) ==
    IF k > Len(bases) THEN [err |-> "none", bases |-> <<>>]
    ELSE IF "id" \notin DOMAIN bases[k]
    THEN [err |-> "AttributeError", bases |-> <<>>]
    ELSE LET ref == get_ref(bases[k].id)
             more == resolved_bases(bases, k + 1)
         IN  [err |-> more.err,
              bases |-> (IF ref # <<>>
                         THEN <<[name |-> bases[k].id, ref |-> ref]>>
                         ELSE <<>>) \o more.bases]

RECURSIVE write_bases(_, _, _, _)
\* handleClassDef's second loop, over the resolved bases from k on
write_bases(ws, n, bases, k) ==
    IF k > Len(bases) THEN ws
    ELSE LET a == end(w(begin(ws, <<"a">>, <<>>, bases[k].ref, n),
                        <<bases[k].name>>, n, <<>>), "a", n)
             sep == IF bases[k].ref # Last(bases).ref
                    THEN w(a, <<", ">>, n, <<>>) ELSE a
         IN  write_bases(sep, n, bases, k + 1)

\* handleClassDef keeping the bases that do not resolve, as plain names
class_bases_all(ws, n) ==
    IF Bases(n) = <<>> THEN ws
    ELSE LET r == resolved_bases(Bases(n), 1)
             shown == [k \in 1..Len(Bases(n)) |->
                        [name |-> Bases(n)[k].id, ref |-> get_ref(Bases(n)[k].id)]]
         IN  IF r.err # "none" THEN Raise(ws, r.err)
             ELSE w(write_bases(w(ws, <<"(">>, n, <<>>), n, shown, 1),
                    <<")">>, n, <<>>)

\* handleClassDef's if obj.bases: block
class_bases(ws, n) ==
    IF Bases(n) = <<>> THEN ws
    ELSE LET r == resolved_bases(Bases(n), 1)
         IN  IF r.err # "none" THEN Raise(ws, r.err)
             ELSE IF r.bases = <<>> THEN ws
             ELSE w(write_bases(w(ws, <<"(">>, n, <<>>), n, r.bases, 1),
                    <<")">>, n, <<>>)

\* Writer.handleClassDef, up to the call of write_body
class_heading(ws, n) ==
    LET div == begin(ws, <<"div", "class=class">>, <<>>, <<>>, n)
        cr == create_ref(n)
        h3 == IF cr.err # "none" THEN Raise(div, cr.err)
              ELSE w(begin(div, <<"h3", "class=class-heading">>, cr.id, <<>>, n),
                     <<ObjName(n, stamp)>>, n, <<>>)
    IN  write_docstring(end(class_bases(h3, n), "h3", n), n, {})

\* Writer.handleClassDef; its end("div") follows write_body
Writer_handleClassDef ==
    /\ Running("render", "wobj")
    /\ is_documented(Head1.n)
    /\ Kind(Head1.n) = "ClassDef"
    /\ LET n == Head1.n
           ws == class_heading(WS, n)
       IN  /\ elements' = ws.elements
           /\ out' = ws.out
           /\ err' = ws.err
           /\ wcontext' = IF ws.err = "none" THEN Append(wcontext, n) ELSE wcontext
           /\ agenda' = IF ws.err = "none"
                        THEN write_body(n, "h3") \o <<Item4("end", n, "", "div")>>
                                \o Tail(agenda)
                        ELSE agenda
    /\ UNCHANGED <<cfg, pc, i, wname, wfile>>
    /\ UNCHANGED indexVars

RECURSIVE write_args(_, _, _)
\* handleFunctionDef's loop over obj.args.args from argument k on; a
\* default is a Num, written by handleNum
write_args(ws, n, k) ==
    IF k > Len(Args(n)) THEN ws
    ELSE LET default_start == Len(Args(n)) - Len(Defaults(n))
             nm == w(ws, <<Args(n)[k]>>, n, <<>>)
             df == IF k - 1 >= default_start
                   THEN w(w(nm, <<" = ">>, n, <<>>),
                          <<ToString(Defaults(n)[k - default_start])>>, n, <<>>)
                   ELSE nm
             sep == IF k # Len(Args(n)) THEN w(df, <<", ">>, n, <<>>) ELSE df
         IN  write_args(sep, n, k + 1)

\* Writer.handleFunctionDef, up to the call of write_objects(obj.body)
function_heading(ws, n) ==
    LET div == begin(ws, <<"div", "class=function">>, <<>>, <<>>, n)
        cr == create_ref(n)
        h3 == IF cr.err # "none" THEN Raise(div, cr.err)
              ELSE w(w(begin(div, <<"h3", "class=function-heading">>, cr.id,
                             <<>>, n),
                       <<ObjName(n, stamp)>>, n, <<>>), <<"(">>, n, <<>>)
        args == end(w(write_args(h3, n, 1), <<")">>, n, <<>>), "h3", n)
    IN  write_docstring(args, n, Range(Args(n)))

\* Writer.handleFunctionDef; its end("div") follows write_objects(obj.body)
Writer_handleFunctionDef ==
    /\ Running("render", "wobj")
    /\ is_documented(Head1.n)
    /\ Kind(Head1.n) = "FunctionDef"
    /\ LET n == Head1.n
           ws == function_heading(WS, n)
       IN  /\ elements' = ws.elements
           /\ out' = ws.out
           /\ err' = ws.err
           /\ agenda' = IF ws.err = "none"
                        THEN [k \in 1..Len(Body(n)) |-> Item("wobj", Body(n)[k])]
                                \o <<Item4("end", n, "", "div")>> \o Tail(agenda)
                        ELSE agenda
    /\ UNCHANGED <<cfg, pc, i, wcontext, wname, wfile>>
    /\ UNCHANGED indexVars

RECURSIVE write_imports(_, _, _)
\* handleImport's loop over obj.names from name k on
write_imports(ws, n, k) ==
    IF k > Len(ImportNames(n)) THEN ws
    ELSE LET nm == w(ws, <<ImportNames(n)[k]>>, n, <<>>)
         IN  write_imports(IF k # Len(ImportNames(n))
                           THEN w(nm, <<", ">>, n, <<>>) ELSE nm, n, k + 1)

\* Writer.handleImport
Writer_handleImport ==
    /\ Running("render", "wobj")
    /\ Kind(Head1.n) = "Import"
    /\ LET n == Head1.n
           ws == end(write_imports(begin(WS, <<"p">>, <<>>, <<>>, n), n, 1),
                     "p", n)
       IN  /\ elements' = ws.elements
           /\ out' = ws.out
           /\ err' = ws.err
    /\ agenda' = Tail(agenda)
    /\ UNCHANGED <<cfg, pc, i, wcontext, wname, wfile>>
    /\ UNCHANGED indexVars

\* the end("div", ...) that finishes handleClassDef and handleFunctionDef
Writer_end_div ==
    /\ Running("render", "end")
    /\ LET ws == end(WS, Head1.el, Head1.n)
       IN  /\ elements' = ws.elements
           /\ out' = ws.out
           /\ err' = ws.err
    /\ agenda' = Tail(agenda)
    /\ UNCHANGED <<cfg, pc, i, wcontext, wname, wfile>>
    /\ UNCHANGED indexVars

----------------------------------------------------------------------------
(* process()                                                               *)

Init ==
    /\ cfg \in Configs
    /\ pc = "index"
    /\ i = 1
    /\ agenda = <<>>
    /\ err = "none"
    /\ refs = [x \in {} |-> <<>>]
    /\ context = <<>>
    /\ iname = ""
    /\ stamp = [n \in {m \in Nodes : Kind(m) = "Module"} |-> ""]
    /\ elements = <<>>
    /\ wcontext = <<>>
    /\ wname = <<>>
    /\ wfile = None
    /\ out = <<>>

\* the writer created as soon as one tree is read
index_begun == i > 1

\* whether the loop "for obj in trees: index.read(obj)" has read every tree
index_complete == i > Len(Trees)

\* for obj in trees: index.read(obj)
process_read ==
    /\ pc = "index"
    /\ err = "none"
    /\ agenda = <<>>
    /\ ~index_complete
    /\ agenda' = <<Item("read", Trees[i])>>
    /\ i' = i + 1
    /\ UNCHANGED <<cfg, pc, err>>
    /\ UNCHANGED indexVars
    /\ UNCHANGED writerVars

\* writer = Writer(index, output_dir)
process_create_writer ==
    /\ pc = "index"
    /\ err = "none"
    /\ agenda = <<>>
    /\ index_complete
    /\ pc' = "render"
    /\ i' = 1
    /\ elements' = <<>>
    /\ wcontext' = <<>>
    /\ UNCHANGED <<cfg, agenda, err, wname, wfile, out>>
    /\ UNCHANGED indexVars

\* for obj in trees: writer.write(obj)
process_write ==
    /\ pc = "render"
    /\ err = "none"
    /\ agenda = <<>>
    /\ i <= Len(Trees)
    /\ agenda' = <<Item("write", Trees[i])>>
    /\ i' = i + 1
    /\ UNCHANGED <<cfg, pc, err>>
    /\ UNCHANGED indexVars
    /\ UNCHANGED writerVars

\* process returns
process_return ==
    /\ pc = "render"
    /\ err = "none"
    /\ agenda = <<>>
    /\ i > Len(Trees)
    /\ pc' = "done"
    /\ UNCHANGED <<cfg, i, agenda, err>>
    /\ UNCHANGED indexVars
    /\ UNCHANGED writerVars

Next ==
    \/ process_read
    \/ Index_read_module
    \/ Index_read_package
    \/ Index_process_skip
    \/ Index_handleModule
    \/ Index_handleClassDef
    \/ Index_handleFunctionDef
    \/ Index_context_pop
    \/ process_create_writer
    \/ process_write
    \/ Writer_write_module
    \/ Writer_write_module_return
    \/ Writer_write_package
    \/ Writer_context_pop
    \/ Writer_close
    \/ Writer_write_objects_skip
    \/ Writer_write_body_heading
    \/ Writer_handleModule
    \/ Writer_handleClassDef
    \/ Writer_handleFunctionDef
    \/ Writer_handleImport
    \/ Writer_end_div
    \/ process_return

Spec == Init /\ [][Next]_vars

----------------------------------------------------------------------------
(* The corpus as the claims speak of it: scopes, declarations and paths,   *)
(* read off the trees and not off the index.                               *)

\* for each object, the object whose objects or body holds it; None for a
\* path given to process
Parents ==
    [n \in Nodes |->
        IF \E p \in Nodes : n \in Range(Body(p))
        THEN CHOOSE p \in Nodes : n \in Range(Body(p))
        ELSE None]

Parent(n) == Parents[n]

RECURSIVE Enclosing(_)
Enclosing(n) == IF Parent(n) = None THEN <<n>> ELSE Append(Enclosing(Parent(n)), n)

\* for each object, its enclosing objects from the outermost one, then itself
Paths == [n \in Nodes |-> Enclosing(n)]

PathOf(n) == Paths[n]

\* Module, ClassDef and FunctionDef nodes without documentation text
Undoc == {n \in Nodes : Kind(n) \in CheckDocstring /\ Docstring(n) = <<>>}

\* the undocumented entities and everything below them
Pruned == LET undoc == Undoc
          IN  {n \in Nodes : \E a \in Range(PathOf(n)) : a \in undoc}

\* the documented entities all of whose enclosing entities are documented
Declared == LET pruned == Pruned
            IN  {n \in Nodes : Kind(n) \in CheckDocstring /\ n \notin pruned}

\* the scopes in which name is declared, given the declared entities
DeclScopes(declared, name) == {Parent(n) : n \in {m \in declared : Name(m) = name}}

\* a declaration of name in scope
DeclIn(declared, name, scope) ==
    CHOOSE n \in declared : Name(n) = name /\ Parent(n) = scope

\* the anchor of n: the names below the module, joined by hyphens
SpecAnchor(n) ==
    LET inner == SelectSeq(PathOf(n), LAMBDA p : Kind(p) \notin {"Package", "Module"})
    IN  Join([k \in 1..Len(inner) |-> Name(inner[k])], "-")

\* the link to n: <module.path>.html#<anchor>, or <module.path>.html
SpecHref(n) ==
    LET outer == SelectSeq(PathOf(n), LAMBDA p : Kind(p) \in {"Package", "Module"})
    IN  Join([k \in 1..Len(outer) |-> Name(outer[k])], ".")
            \o (IF SpecAnchor(n) = <<>> THEN <<".html">>
                ELSE <<".html#">> \o SpecAnchor(n))

\* out[k] writes a word of a docstring
IsToken(k) == out[k].t = "w" /\ out[k].word # <<>>

\* the word out[k] writes, trailing punctuation stripped, if it is a name
TokenName(k) == AsName(rstrip(out[k].val))

\* out[k] is written inside an <a> element, as its first text
Linked(k) == k > 1 /\ out[k - 1].t = "begin" /\ out[k - 1].el = "a"

Tokens == {k \in 1..Len(out) : IsToken(k)}

\* the token is neither the name of the entity whose docstring it is in nor
\* one of that function's parameter names
Plain(k) ==
    /\ TokenName(k) # Name(out[k].by)
    /\ TokenName(k) \notin Range(Args(out[k].by))

RECURSIVE Nearest(_, _)
\* the innermost of the scopes (outermost first) that is in the set, or None
Nearest(scopes, set) ==
    IF scopes = <<>> THEN None
    ELSE IF Last(scopes) \in set THEN Last(scopes)
    ELSE Nearest(Front(scopes), set)

\* the link the claims expect of a token: to the one declaration of an
\* unambiguous name, to the declaration in the nearest enclosing scope of an
\* ambiguous one; <<>> when there is none
Target(declared, name, by) ==
    LET scopes == DeclScopes(declared, name)
        s == IF Cardinality(scopes) = 1 THEN CHOOSE x \in scopes : TRUE
             ELSE Nearest(Front(PathOf(by)), scopes)
    IN  IF scopes = {} \/ s = None THEN <<>>
        ELSE SpecHref(DeclIn(declared, name, s))

\* the token is a hyperlink to href if href is not <<>>, plain text if it is
LinkedTo(k, href) ==
    IF href = <<>> THEN ~Linked(k) ELSE Linked(k) /\ out[k - 1].val = href

----------------------------------------------------------------------------
(* Claims                                                                  *)

\* C1: a word declared in two or more scopes, mentioned in the docstring of
\* an entity, links to the declaration in the nearest enclosing scope of
\* that entity that declares it, and is plain text when no enclosing scope
\* declares it.  (Violated: Writer.handleFunctionDef does not put the
\* function on the context, so a mention inside an entity nested in a
\* function does not see the function's declarations.)
C1_NearestAncestor ==
    LET declared == Declared
        tokens == Tokens
        ambiguous == {name \in {TokenName(k) : k \in tokens} :
                        Cardinality(DeclScopes(declared, name)) >= 2}
    IN  \A k \in tokens :
            (TokenName(k) \in ambiguous /\ Plain(k)) =>
                LinkedTo(k, Target(declared, TokenName(k), out[k].by))

\* C2 as stated: every mention of a name declared in exactly one scope is a
\* hyperlink to that entity, wherever it occurs.
C2_Original ==
    LET declared == Declared
        tokens == Tokens
        single == {name \in {TokenName(k) : k \in tokens} :
                        Cardinality(DeclScopes(declared, name)) = 1}
        href == [name \in single |-> Target(declared, name, None)]
    IN  \A k \in tokens :
            TokenName(k) \in single =>
                Linked(k) /\ out[k - 1].val = href[TokenName(k)]

\* C2, amended: every mention of a name declared in exactly one scope is a
\* hyperlink to that entity, wherever it occurs, unless it is the name of
\* the entity the docstring documents or a parameter name of that function.
C2_UnambiguousName ==
    LET declared == Declared
        tokens == Tokens
        single == {name \in {TokenName(k) : k \in tokens} :
                        Cardinality(DeclScopes(declared, name)) = 1}
        href == [name \in single |-> Target(declared, name, None)]
    IN  \A k \in tokens :
            (TokenName(k) \in single /\ Plain(k)) =>
                Linked(k) /\ out[k - 1].val = href[TokenName(k)]

\* C2's case: a name declared in one scope only is mentioned in a document
\* of another module, and linked
C2_Witness ==
    LET declared == Declared
    IN  \E k \in Tokens :
            /\ Cardinality(DeclScopes(declared, TokenName(k))) = 1
            /\ Plain(k)
            /\ Linked(k)
            /\ \A n \in declared : Name(n) = TokenName(k) =>
                    out[k].doc \notin Range(PathOf(n))

\* the positions of out that begin a class or function heading with an id
Anchors == {k \in 1..Len(out) :
                out[k].t = "begin" /\ out[k].el = "h3" /\ out[k].val # <<>>}

\* C3: no two anchor ids emitted into one document are equal.  (Violated:
\* two documented definitions of one name in one scope get the same id.)
C3_UniqueAnchors ==
    \A p, q \in Anchors :
        (p # q /\ out[p].doc = out[q].doc) => out[p].val # out[q].val

\* C4: when the renderer visits a documented class or function, the top of
\* its context is the scope the indexer recorded the entity under, so
\* create_ref finds the entity's own entry and the id is the hyphen-joined
\* path below the module.  (Violated: inside a function the top of the
\* renderer's context is still the function's own parent.)
C4_SymmetricContext ==
    (/\ Running("render", "wobj")
     /\ Kind(Head1.n) \in {"ClassDef", "FunctionDef"}
     /\ is_documented(Head1.n)) =>
        /\ wcontext # <<>>
        /\ Last(wcontext) = Parent(Head1.n)
        /\ create_ref(Head1.n).err = "none"
        /\ create_ref(Head1.n).id = SpecAnchor(Head1.n)

\* C5: an undocumented module, class or function, and every descendant of
\* it, is in no path of the index, under no key of it, and has written
\* nothing to any document.
C5_UndocumentedPruned ==
    LET pruned == Pruned
    IN  /\ \A name \in DOMAIN refs : \A key \in DOMAIN refs[name] :
                key \notin pruned /\ Range(refs[name][key]) \cap pruned = {}
        /\ \A k \in 1..Len(out) : out[k].by \notin pruned /\ out[k].doc \notin pruned

\* C5's case: the run has ended and an undocumented entity has a child with
\* documentation text, in a corpus that produced documents
C5_Witness ==
    /\ pc = "done"
    /\ out # <<>>
    /\ \E n \in Undoc : \E c \in Range(Body(n)) : Docstring(c) # <<>>

\* the index holds, under (the module's name, the enclosing scope or None),
\* an entry whose entity is the module itself
IndexHolds(n, parent) ==
    /\ Name(n) \in DOMAIN refs
    /\ parent \in DOMAIN refs[Name(n)]
    /\ Last(refs[Name(n)][parent]) = n

Opens == {k \in 1..Len(out) : out[k].t = "open"}

\* C6: a document is opened only for a module the index holds under its
\* (name, enclosing scope) pair, at most once per pair; and a write_module
\* call for any other module changes nothing of the writer.
C6_ModuleGuard ==
    /\ [](/\ \A k \in Opens : IndexHolds(out[k].by, Parent(out[k].by))
          /\ \A p, q \in Opens :
                (/\ Name(out[p].by) = Name(out[q].by)
                 /\ Parent(out[p].by) = Parent(out[q].by)) => p = q)
    /\ [][(/\ Running("render", "write")
           /\ Kind(Head1.n) = "Module"
           /\ ~IndexHolds(Head1.n, write_parent))
            => UNCHANGED <<elements, wcontext, wname, wfile, out>>]_vars

\* C6's case: the run has ended, one module's document was written and
\* another module of the same name and scope was passed over
C6_Witness ==
    /\ pc = "done"
    /\ \E k \in Opens : \E m \in Nodes :
        /\ Kind(m) = "Module"
        /\ m # out[k].by
        /\ Name(m) = Name(out[k].by)
        /\ Parent(m) = Parent(out[k].by)
        /\ Docstring(m) # <<>>
        /\ \A q \in Opens : out[q].by # m

\* every declared entity of every tree has its entry in the index
IndexBuilt ==
    \A n \in Declared :
            /\ Name(n) \in DOMAIN refs
            /\ Parent(n) \in DOMAIN refs[Name(n)]
            /\ [k \in 1..Len(refs[Name(n)][Parent(n)]) |->
                    Name(refs[Name(n)][Parent(n)][k])]
                = [k \in 1..Len(PathOf(n)) |-> Name(PathOf(n)[k])]

\* C7: rendering begins only when every tree is indexed, and no step of the
\* rendering pass changes the index.
C7_TwoPasses ==
    /\ []((pc = "render" \/ out # <<>>) => IndexBuilt)
    /\ [][pc = "render" => refs' = refs]_vars

\* C7's case: the renderer is at work on a document, with the index built
C7_Witness ==
    pc = "render" /\ wfile # None /\ Len(out) > 10 /\ DOMAIN refs # {}

\* C8: end never pops an empty stack nor finds another element on top, and
\* no element is open once a document is closed.
C8_ElementStack ==
    /\ err \notin {"SystemExit", "IndexError: pop from empty list"}
    /\ ((wfile = None) => (elements = <<>>))

\* C8's case: a document with a link and an emphasised word has been closed
C8_Witness ==
    /\ wfile = None
    /\ \E k \in 1..Len(out) : out[k].t = "close"
    /\ \E k \in 1..Len(out) : out[k].t = "end" /\ out[k].el = "a"
    /\ \E k \in 1..Len(out) : out[k].t = "end" /\ out[k].el = "em"

\* C9: in the docstring of an entity no word equal to the entity's own name
\* is written as a hyperlink.
C9_NoSelfLink ==
    \A k \in Tokens : TokenName(k) = Name(out[k].by) => ~Linked(k)

\* C9's case: an entity's docstring mentions the entity's own name, which
\* the index holds
C9_Witness ==
    \E k \in Tokens :
        /\ TokenName(k) = Name(out[k].by)
        /\ rstrip(out[k].val) # out[k].val
        /\ TokenName(k) \in DOMAIN refs

\* what a heading shows of one event
Shown(e) == <<e.t, e.el, e.val>>

\* the heading of class n in the output: what follows its name up to the
\* end of its h3
BasesShown(o, n) ==
    LET p == CHOOSE k \in 1..Len(o) :
                o[k].by = n /\ o[k].t = "begin" /\ o[k].el = "h3"
                /\ \A j \in 1..(k - 1) : ~(o[j].by = n /\ o[j].el = "h3")
        q == CHOOSE k \in (p + 1)..Len(o) :
                o[k].by = n /\ o[k].t = "end" /\ o[k].el = "h3"
                /\ \A j \in (p + 1)..(k - 1) : ~(o[j].by = n /\ o[j].el = "h3")
    IN  [k \in 1..(q - p - 2) |-> Shown(o[p + 1 + k])]

RECURSIVE BaseList(_, _)
\* the bases from base k on as the heading is to show them: a resolved
\* base as a link, an unresolved one as its plain name if plain is set and
\* not at all otherwise, with ", " between two that are shown
BaseList(bases, plain) ==
    IF bases = <<>> THEN <<>>
    ELSE LET ref == get_ref(bases[1].id)
             this == IF ref # <<>>
                     THEN << <<"begin", "a", ref>>, <<"w", "", <<bases[1].id>> >>,
                             <<"end", "a", <<>> >> >>
                     ELSE IF plain THEN << <<"w", "", <<bases[1].id>> >> >>
                     ELSE <<>>
             more == BaseList(Tail(bases), plain)
         IN  this \o (IF this # <<>> /\ more # <<>>
                      THEN << <<"w", "", <<", ">> >> >> ELSE <<>>) \o more

Parenthesised(list) ==
    IF list = <<>> THEN <<>>
    ELSE << <<"w", "", <<"(">> >> >> \o list \o << <<"w", "", <<")">> >> >>

\* handleClassDef is about to write class n, whose bases are all names,
\* and writes it without an exception
ClassWritten(n) ==
    /\ Running("render", "wobj")
    /\ Head1.n = n
    /\ Kind(n) = "ClassDef"
    /\ is_documented(n)
    /\ \A k \in 1..Len(Bases(n)) : "id" \in DOMAIN Bases(n)[k]
    /\ err' = "none"

\* the bases that resolve have different link targets
DistinctBases(n) ==
    \A p, q \in 1..Len(Bases(n)) :
        (p # q /\ get_ref(Bases(n)[p].id) # <<>>)
            => get_ref(Bases(n)[p].id) # get_ref(Bases(n)[q].id)

Links == {k \in 1..Len(out) : out[k].t = "begin" /\ out[k].el = "a"}

\* where the href leaves the document address: at ".html" or ".html#"
HtmlAt(href) ==
    CHOOSE p \in 1..Len(href) : href[p] \in {".html", ".html#"}

\* the document address of the href, without its ".html"
LinkDocument(href) == SubSeq(href, 1, HtmlAt(href) - 1)

\* the anchor of the href, <<>> for a link to a whole document
LinkAnchor(href) == SubSeq(href, HtmlAt(href) + 1, Len(href))

\* the run has written a document under the link's address, and the link's
\* anchor, if it has one, is the id of a heading written into that document
HasTarget(k) ==
    \E o \in Opens :
        /\ out[o].val = LinkDocument(out[k].val)
        /\ \/ LinkAnchor(out[k].val) = <<>>
           \/ \E a \in Anchors :
                /\ out[a].doc = out[o].by
                /\ out[a].val = LinkAnchor(out[k].val)

\* C11: when the run has ended without an exception, every hyperlink written
\* in a docstring or a base list leads to a document the run has written
\* and, if it has an anchor, to the id of a class or function heading in
\* that document.  (Violated: a class nested in a class is indexed, and so
\* linked to, but Writer.Order gives a class no section for classes and its
\* heading is never written.)
C11_LinkIntegrity ==
    pc = "done" => \A k \in Links : HasTarget(k)

====
